---- MODULE Spec2Model ----
(***************************************************************************)
(* The ledger engine of off_chain_transactions: State (state.rs) with its  *)
(* two maps, State::process with its five arms, State::write, and main()   *)
(* and run() of main.rs, which feed decoded CSV records to the engine.     *)
(*                                                                         *)
(* Specifications:                                                         *)
(*   Spec          State::process called directly, any transaction at any  *)
(*                 time, also after a call that returned Err (as the unit  *)
(*                 tests of state.rs drive the engine);                    *)
(*   RunSpec       main.rs run() over any records: read, decode, process,  *)
(*                 stop at the first error, write the snapshot at the end, *)
(*                 and the exit of main();                                 *)
(*   DepositsSpec  State::process called with Deposits only;               *)
(*   StreamSpec    main() and run() over a given input file;               *)
(*   RenderSpec    a balance near 2^39, added to and displayed.            *)
(*                                                                         *)
(* FixedFloat is its i64 payload (amount * 10000).  The amounts of the     *)
(* engine specifications are a few units around zero, far from the i64     *)
(* limits, so the additions and subtractions never overflow here; the      *)
(* conversions to and from f64 are defined on the ranges stated with them. *)
(***************************************************************************)
EXTENDS Integers, Sequences, FiniteSets, TLC

\* ------------------------------------------------------------------ bounds
\* Largest FixedFloat payload of a transaction handed to process
MaxAmount == 1
\* Most process calls (Spec) or records read (RunSpec) in one behaviour
MaxCalls == 4

\* Two clients and two transaction ids: enough for "another account",
\* "another record" and a reused id.
ClientIds == {1, 2}
TransactionIds == {1, 2}
\* FixedFloat payloads handed to the engine: the positive ones up to
\* MaxAmount and a negative one, which the decoder and process accept like
\* any other.
Amounts == {0 - 1} \cup (1..MaxAmount)

\* ------------------------------------------------------------------- types
\* TransactionState
Alive == "Alive"
Disputed == "Disputed"
ChargedBack == "ChargedBack"

\* TransactionInner
Deposit(amount) == [kind |-> "Deposit", amount |-> amount]
Withdrawal(amount) == [kind |-> "Withdrawal", amount |-> amount]
Dispute == [kind |-> "Dispute"]
Resolve == [kind |-> "Resolve"]
Chargeback == [kind |-> "Chargeback"]

\* Transaction::new
Transaction_new(transaction_id, client_id, inner) ==
    [transaction_id |-> transaction_id,
     client_id |-> client_id,
     inner |-> inner,
     state |-> Alive]

\* Mutant: a default account that starts locked
AccountState_default_locked == [available |-> 0, held |-> 0, locked |-> TRUE]

\* AccountState::default()
AccountState_default == [available |-> 0, held |-> 0, locked |-> FALSE]

\* Result<(), ProcessError>
Ok == [tag |-> "Ok"]
DisputedTransactionClientMissing(client_id) ==
    [tag |-> "DisputedTransactionClientMissing", client_id |-> client_id]
DisputeTargetInvalid(transaction_id) ==
    [tag |-> "DisputeTargetInvalid", transaction_id |-> transaction_id]
DuplicateTransactionId(transaction_id) ==
    [tag |-> "DuplicateTransactionId", transaction_id |-> transaction_id]

\* HashMap::default() and HashMap insertion of a key that may be new
EmptyMap == [k \in {} |-> 0]
MapInsert(m, k, v) == [j \in DOMAIN m \cup {k} |-> IF j = k THEN v ELSE m[j]]

\* What a process call leaves behind: both maps and the returned Result
Outcome(transactions_, accounts_, result_) ==
    [transactions |-> transactions_, accounts |-> accounts_, result |-> result_]

\* ---------------------------------------------------------------- helpers
\* Mutant: a cache that overwrites the record of an id already stored
cache_transaction_overwrites(transactions_, txn_) ==
    [transactions |-> MapInsert(transactions_, txn_.transaction_id, txn_),
     result |-> Ok]

\* State::cache_transaction: Entry::Occupied is an error, Entry::Vacant inserts
cache_transaction(transactions_, txn_) ==
    IF txn_.transaction_id \in DOMAIN transactions_
    THEN [transactions |-> transactions_,
          result |-> DuplicateTransactionId(txn_.transaction_id)]
    ELSE [transactions |-> MapInsert(transactions_, txn_.transaction_id, txn_),
          result |-> Ok]

\* State::get_or_create_account: entry(client_id).or_insert_with(default)
get_or_create_account(accounts_, client_id) ==
    IF client_id \in DOMAIN accounts_
    THEN accounts_
    ELSE MapInsert(accounts_, client_id, AccountState_default)

\* Mutant: the disputed amount of a withdrawal taken without the negation
disputed_amount_sameSign(inner) ==
    CASE inner.kind \in {"Deposit", "Withdrawal"} ->
             [ok |-> TRUE, amount |-> inner.amount]
      [] OTHER -> [ok |-> FALSE, amount |-> 0]

\* The `let amount = match disputed_txn.inner` of the three dispute-family arms
disputed_amount(inner) ==
    CASE inner.kind = "Deposit" -> [ok |-> TRUE, amount |-> inner.amount]
      [] inner.kind = "Withdrawal" -> [ok |-> TRUE, amount |-> 0 - inner.amount]
      [] OTHER -> [ok |-> FALSE, amount |-> 0]

\* ------------------------------------------------- State::process, by arm
\* Mutant: a deposit that is refused on a locked account
process_Deposit_skipsLocked(transactions_, accounts_, txn_) ==
    LET created == get_or_create_account(accounts_, txn_.client_id)
        credited == IF created[txn_.client_id].locked
                    THEN created
                    ELSE [created EXCEPT ![txn_.client_id].available =
                                             @ + txn_.inner.amount]
        cached == cache_transaction(transactions_, txn_)
    IN  Outcome(cached.transactions, credited, cached.result)

\* Mutant: a deposit that sets available to its amount instead of adding it
process_Deposit_setsAvailable(transactions_, accounts_, txn_) ==
    LET created == get_or_create_account(accounts_, txn_.client_id)
        credited == [created EXCEPT ![txn_.client_id].available =
                                         txn_.inner.amount]
        cached == cache_transaction(transactions_, txn_)
    IN  Outcome(cached.transactions, credited, cached.result)

\* Mutant: a deposit that unlocks the account it credits
process_Deposit_unlocks(transactions_, accounts_, txn_) ==
    LET created == get_or_create_account(accounts_, txn_.client_id)
        credited == [created EXCEPT ![txn_.client_id].available =
                                         @ + txn_.inner.amount,
                                    ![txn_.client_id].locked = FALSE]
        cached == cache_transaction(transactions_, txn_)
    IN  Outcome(cached.transactions, credited, cached.result)

\* TransactionInner::Deposit(amount)
process_Deposit(transactions_, accounts_, txn_) ==
    LET created == get_or_create_account(accounts_, txn_.client_id)
        credited == [created EXCEPT ![txn_.client_id].available =
                                         @ + txn_.inner.amount]
        cached == cache_transaction(transactions_, txn_)
    IN  Outcome(cached.transactions, credited, cached.result)

\* Mutant: a withdrawal that is stored only when the funds sufficed
process_Withdrawal_cachesIfPaid(transactions_, accounts_, txn_) ==
    LET created == get_or_create_account(accounts_, txn_.client_id)
        account == created[txn_.client_id]
        cached == cache_transaction(transactions_, txn_)
    IN  IF ~account.locked /\ account.available >= txn_.inner.amount
        THEN Outcome(cached.transactions,
                     [created EXCEPT ![txn_.client_id].available =
                                         @ - txn_.inner.amount],
                     cached.result)
        ELSE Outcome(transactions_, created, Ok)

\* Mutant: a withdrawal that is stored even when the account is locked
process_Withdrawal_cachesLocked(transactions_, accounts_, txn_) ==
    LET created == get_or_create_account(accounts_, txn_.client_id)
        account == created[txn_.client_id]
        debited_ == IF ~account.locked /\ account.available >= txn_.inner.amount
                    THEN [created EXCEPT ![txn_.client_id].available =
                                             @ - txn_.inner.amount]
                    ELSE created
        cached == cache_transaction(transactions_, txn_)
    IN  Outcome(cached.transactions, debited_, cached.result)

\* Mutant: a withdrawal that looks the account up without creating it, and
\* stores the withdrawal of a client that has no account
process_Withdrawal_noAccount(transactions_, accounts_, txn_) ==
    LET known == txn_.client_id \in DOMAIN accounts_
        account == AccountState_default
        cached == cache_transaction(transactions_, txn_)
    IN  IF known
        THEN LET held_ == accounts_[txn_.client_id]
                 debited_ == IF held_.available >= txn_.inner.amount
                             THEN [accounts_ EXCEPT ![txn_.client_id].available =
                                                        @ - txn_.inner.amount]
                             ELSE accounts_
             IN  IF ~held_.locked
                 THEN Outcome(cached.transactions, debited_, cached.result)
                 ELSE Outcome(transactions_, accounts_, Ok)
        ELSE Outcome(cached.transactions, accounts_, cached.result)

\* TransactionInner::Withdrawal(amount)
process_Withdrawal(transactions_, accounts_, txn_) ==
    LET created == get_or_create_account(accounts_, txn_.client_id)
        account == created[txn_.client_id]
        debited_ == IF account.available >= txn_.inner.amount
                    THEN [created EXCEPT ![txn_.client_id].available =
                                             @ - txn_.inner.amount]
                    ELSE created
        cached == cache_transaction(transactions_, txn_)
    IN  IF ~account.locked
        THEN Outcome(cached.transactions, debited_, cached.result)
        ELSE Outcome(transactions_, created, Ok)

\* Mutant: a dispute that only refuses records already Disputed, and so
\* reopens a ChargedBack record
process_Dispute_reopens(transactions_, accounts_, txn_) ==
    LET id == txn_.transaction_id
        Return(r) == Outcome(transactions_, accounts_, r)
    IN  IF id \notin DOMAIN transactions_ THEN Return(Ok)
        ELSE LET disputed_txn == transactions_[id]
                 amt == disputed_amount(disputed_txn.inner)
                 c == disputed_txn.client_id
             IN  IF disputed_txn.state = Disputed THEN Return(Ok)
                 ELSE IF ~amt.ok THEN Return(DisputeTargetInvalid(id))
                 ELSE IF c \notin DOMAIN accounts_
                 THEN Return(DisputedTransactionClientMissing(c))
                 ELSE Outcome(
                        [transactions_ EXCEPT ![id].state = Disputed],
                        [accounts_ EXCEPT ![c].available = @ - amt.amount,
                                          ![c].held = @ + amt.amount],
                        Ok)

\* Mutant: a dispute that moves the funds of the disputing transaction's
\* client instead of the disputed record's client
process_Dispute_ownClient(transactions_, accounts_, txn_) ==
    LET id == txn_.transaction_id
        Return(r) == Outcome(transactions_, accounts_, r)
    IN  IF id \notin DOMAIN transactions_ THEN Return(Ok)
        ELSE LET disputed_txn == transactions_[id]
                 amt == disputed_amount(disputed_txn.inner)
                 c == txn_.client_id
             IN  IF disputed_txn.state # Alive THEN Return(Ok)
                 ELSE IF ~amt.ok THEN Return(DisputeTargetInvalid(id))
                 ELSE IF c \notin DOMAIN accounts_
                 THEN Return(DisputedTransactionClientMissing(c))
                 ELSE Outcome(
                        [transactions_ EXCEPT ![id].state = Disputed],
                        [accounts_ EXCEPT ![c].available = @ - amt.amount,
                                          ![c].held = @ + amt.amount],
                        Ok)

\* Mutant: a dispute that is stored in history when its id is not there yet
process_Dispute_cached(transactions_, accounts_, txn_) ==
    LET id == txn_.transaction_id
        Return(r) == Outcome(transactions_, accounts_, r)
    IN  IF id \notin DOMAIN transactions_
        THEN Outcome(cache_transaction(transactions_, txn_).transactions,
                     accounts_, Ok)
        ELSE LET disputed_txn == transactions_[id]
                 amt == disputed_amount(disputed_txn.inner)
                 c == disputed_txn.client_id
             IN  IF disputed_txn.state # Alive THEN Return(Ok)
                 ELSE IF ~amt.ok THEN Return(DisputeTargetInvalid(id))
                 ELSE IF c \notin DOMAIN accounts_
                 THEN Return(DisputedTransactionClientMissing(c))
                 ELSE Outcome(
                        [transactions_ EXCEPT ![id].state = Disputed],
                        [accounts_ EXCEPT ![c].available = @ - amt.amount,
                                          ![c].held = @ + amt.amount],
                        Ok)

\* Mutant: a dispute that takes the amount out of available and does not
\* put it into held
process_Dispute_noHold(transactions_, accounts_, txn_) ==
    LET id == txn_.transaction_id
        Return(r) == Outcome(transactions_, accounts_, r)
    IN  IF id \notin DOMAIN transactions_ THEN Return(Ok)
        ELSE LET disputed_txn == transactions_[id]
                 amt == disputed_amount(disputed_txn.inner)
                 c == disputed_txn.client_id
             IN  IF disputed_txn.state # Alive THEN Return(Ok)
                 ELSE IF ~amt.ok THEN Return(DisputeTargetInvalid(id))
                 ELSE IF c \notin DOMAIN accounts_
                 THEN Return(DisputedTransactionClientMissing(c))
                 ELSE Outcome(
                        [transactions_ EXCEPT ![id].state = Disputed],
                        [accounts_ EXCEPT ![c].available = @ - amt.amount],
                        Ok)

\* TransactionInner::Dispute
process_Dispute(transactions_, accounts_, txn_) ==
    LET id == txn_.transaction_id
        Return(r) == Outcome(transactions_, accounts_, r)
    IN  IF id \notin DOMAIN transactions_ THEN Return(Ok)
        ELSE LET disputed_txn == transactions_[id]
                 amt == disputed_amount(disputed_txn.inner)
                 c == disputed_txn.client_id
             IN  IF disputed_txn.state # Alive THEN Return(Ok)
                 ELSE IF ~amt.ok THEN Return(DisputeTargetInvalid(id))
                 ELSE IF c \notin DOMAIN accounts_
                 THEN Return(DisputedTransactionClientMissing(c))
                 ELSE Outcome(
                        [transactions_ EXCEPT ![id].state = Disputed],
                        [accounts_ EXCEPT ![c].available = @ - amt.amount,
                                          ![c].held = @ + amt.amount],
                        Ok)

\* Mutant: a resolve that gives the funds back to available and forgets to
\* take them out of held
process_Resolve_keepsHeld(transactions_, accounts_, txn_) ==
    LET id == txn_.transaction_id
        Return(r) == Outcome(transactions_, accounts_, r)
    IN  IF id \notin DOMAIN transactions_ THEN Return(Ok)
        ELSE LET disputed_txn == transactions_[id]
                 amt == disputed_amount(disputed_txn.inner)
                 c == disputed_txn.client_id
             IN  IF disputed_txn.state # Disputed THEN Return(Ok)
                 ELSE IF ~amt.ok THEN Return(DisputeTargetInvalid(id))
                 ELSE IF c \notin DOMAIN accounts_
                 THEN Return(DisputedTransactionClientMissing(c))
                 ELSE Outcome(
                        [transactions_ EXCEPT ![id].state = Alive],
                        [accounts_ EXCEPT ![c].available = @ + amt.amount],
                        Ok)

\* Mutant: a resolve that fetches-or-creates the account of the resolving
\* transaction's client before it looks the record up
process_Resolve_createsAccount(transactions_, accounts_, txn_) ==
    LET id == txn_.transaction_id
        created == get_or_create_account(accounts_, txn_.client_id)
        Return(r) == Outcome(transactions_, created, r)
    IN  IF id \notin DOMAIN transactions_ THEN Return(Ok)
        ELSE LET disputed_txn == transactions_[id]
                 amt == disputed_amount(disputed_txn.inner)
                 c == disputed_txn.client_id
             IN  IF disputed_txn.state # Disputed THEN Return(Ok)
                 ELSE IF ~amt.ok THEN Return(DisputeTargetInvalid(id))
                 ELSE IF c \notin DOMAIN created
                 THEN Return(DisputedTransactionClientMissing(c))
                 ELSE Outcome(
                        [transactions_ EXCEPT ![id].state = Alive],
                        [created EXCEPT ![c].available = @ + amt.amount,
                                        ![c].held = @ - amt.amount],
                        Ok)

\* Mutant: a resolve that takes the amount out of held and does not give it
\* back to available
process_Resolve_dropsHeld(transactions_, accounts_, txn_) ==
    LET id == txn_.transaction_id
        Return(r) == Outcome(transactions_, accounts_, r)
    IN  IF id \notin DOMAIN transactions_ THEN Return(Ok)
        ELSE LET disputed_txn == transactions_[id]
                 amt == disputed_amount(disputed_txn.inner)
                 c == disputed_txn.client_id
             IN  IF disputed_txn.state # Disputed THEN Return(Ok)
                 ELSE IF ~amt.ok THEN Return(DisputeTargetInvalid(id))
                 ELSE IF c \notin DOMAIN accounts_
                 THEN Return(DisputedTransactionClientMissing(c))
                 ELSE Outcome(
                        [transactions_ EXCEPT ![id].state = Alive],
                        [accounts_ EXCEPT ![c].held = @ - amt.amount],
                        Ok)

\* TransactionInner::Resolve
process_Resolve(transactions_, accounts_, txn_) ==
    LET id == txn_.transaction_id
        Return(r) == Outcome(transactions_, accounts_, r)
    IN  IF id \notin DOMAIN transactions_ THEN Return(Ok)
        ELSE LET disputed_txn == transactions_[id]
                 amt == disputed_amount(disputed_txn.inner)
                 c == disputed_txn.client_id
             IN  IF disputed_txn.state # Disputed THEN Return(Ok)
                 ELSE IF ~amt.ok THEN Return(DisputeTargetInvalid(id))
                 ELSE IF c \notin DOMAIN accounts_
                 THEN Return(DisputedTransactionClientMissing(c))
                 ELSE Outcome(
                        [transactions_ EXCEPT ![id].state = Alive],
                        [accounts_ EXCEPT ![c].available = @ + amt.amount,
                                          ![c].held = @ - amt.amount],
                        Ok)

\* Mutant: a chargeback that only refuses Alive records, and so charges a
\* ChargedBack record back again
process_Chargeback_repeats(transactions_, accounts_, txn_) ==
    LET id == txn_.transaction_id
        Return(r) == Outcome(transactions_, accounts_, r)
    IN  IF id \notin DOMAIN transactions_ THEN Return(Ok)
        ELSE LET disputed_txn == transactions_[id]
                 amt == disputed_amount(disputed_txn.inner)
                 c == disputed_txn.client_id
             IN  IF disputed_txn.state = Alive THEN Return(Ok)
                 ELSE IF ~amt.ok THEN Return(DisputeTargetInvalid(id))
                 ELSE IF c \notin DOMAIN accounts_
                 THEN Return(DisputedTransactionClientMissing(c))
                 ELSE Outcome(
                        [transactions_ EXCEPT ![id].state = ChargedBack],
                        [accounts_ EXCEPT ![c].held = @ - amt.amount,
                                          ![c].locked = TRUE],
                        Ok)

\* Mutant: a chargeback that locks the account of the transaction's own
\* client instead of the record's client
process_Chargeback_locksOwnClient(transactions_, accounts_, txn_) ==
    LET id == txn_.transaction_id
        Return(r) == Outcome(transactions_, accounts_, r)
    IN  IF id \notin DOMAIN transactions_ THEN Return(Ok)
        ELSE LET disputed_txn == transactions_[id]
                 amt == disputed_amount(disputed_txn.inner)
                 c == disputed_txn.client_id
                 own == txn_.client_id
             IN  IF disputed_txn.state # Disputed THEN Return(Ok)
                 ELSE IF ~amt.ok THEN Return(DisputeTargetInvalid(id))
                 ELSE IF c \notin DOMAIN accounts_ \/ own \notin DOMAIN accounts_
                 THEN Return(DisputedTransactionClientMissing(c))
                 ELSE Outcome(
                        [transactions_ EXCEPT ![id].state = ChargedBack],
                        [[accounts_ EXCEPT ![c].held = @ - amt.amount]
                            EXCEPT ![own].locked = TRUE],
                        Ok)

\* Mutant: a chargeback that removes the charged-back record from history
process_Chargeback_forgets(transactions_, accounts_, txn_) ==
    LET id == txn_.transaction_id
        Return(r) == Outcome(transactions_, accounts_, r)
    IN  IF id \notin DOMAIN transactions_ THEN Return(Ok)
        ELSE LET disputed_txn == transactions_[id]
                 amt == disputed_amount(disputed_txn.inner)
                 c == disputed_txn.client_id
             IN  IF disputed_txn.state # Disputed THEN Return(Ok)
                 ELSE IF ~amt.ok THEN Return(DisputeTargetInvalid(id))
                 ELSE IF c \notin DOMAIN accounts_
                 THEN Return(DisputedTransactionClientMissing(c))
                 ELSE Outcome(
                        [k \in DOMAIN transactions_ \ {id} |-> transactions_[k]],
                        [accounts_ EXCEPT ![c].held = @ - amt.amount,
                                          ![c].locked = TRUE],
                        Ok)

\* Mutant: a chargeback that takes the magnitude of the amount from held,
\* whatever the kind of the record
process_Chargeback_magnitude(transactions_, accounts_, txn_) ==
    LET id == txn_.transaction_id
        Return(r) == Outcome(transactions_, accounts_, r)
    IN  IF id \notin DOMAIN transactions_ THEN Return(Ok)
        ELSE LET disputed_txn == transactions_[id]
                 amt == disputed_amount(disputed_txn.inner)
                 c == disputed_txn.client_id
             IN  IF disputed_txn.state # Disputed THEN Return(Ok)
                 ELSE IF ~amt.ok THEN Return(DisputeTargetInvalid(id))
                 ELSE IF c \notin DOMAIN accounts_
                 THEN Return(DisputedTransactionClientMissing(c))
                 ELSE Outcome(
                        [transactions_ EXCEPT ![id].state = ChargedBack],
                        [accounts_ EXCEPT ![c].held = @ - disputed_txn.inner.amount,
                                          ![c].locked = TRUE],
                        Ok)

\* TransactionInner::Chargeback
process_Chargeback(transactions_, accounts_, txn_) ==
    LET id == txn_.transaction_id
        Return(r) == Outcome(transactions_, accounts_, r)
    IN  IF id \notin DOMAIN transactions_ THEN Return(Ok)
        ELSE LET disputed_txn == transactions_[id]
                 amt == disputed_amount(disputed_txn.inner)
                 c == disputed_txn.client_id
             IN  IF disputed_txn.state # Disputed THEN Return(Ok)
                 ELSE IF ~amt.ok THEN Return(DisputeTargetInvalid(id))
                 ELSE IF c \notin DOMAIN accounts_
                 THEN Return(DisputedTransactionClientMissing(c))
                 ELSE Outcome(
                        [transactions_ EXCEPT ![id].state = ChargedBack],
                        [accounts_ EXCEPT ![c].held = @ - amt.amount,
                                          ![c].locked = TRUE],
                        Ok)

\* State::process: match txn.inner
process(transactions_, accounts_, txn_) ==
    CASE txn_.inner.kind = "Deposit" ->
             process_Deposit(transactions_, accounts_, txn_)
      [] txn_.inner.kind = "Withdrawal" ->
             process_Withdrawal(transactions_, accounts_, txn_)
      [] txn_.inner.kind = "Dispute" ->
             process_Dispute(transactions_, accounts_, txn_)
      [] txn_.inner.kind = "Resolve" ->
             process_Resolve(transactions_, accounts_, txn_)
      [] txn_.inner.kind = "Chargeback" ->
             process_Chargeback(transactions_, accounts_, txn_)

\* ---------------------------------------------------------- State::write
Scale == 10000
Abs(n) == IF n < 0 THEN 0 - n ELSE n

\* An i64 payload that may be beyond the integers used here:
\* high * 2^39 * 10000 + low, that is high * 5497558138880000 + low
Wide(high, low) == [high |-> high, low |-> low]

\* The largest magnitude of a payload below 2^39 * 10000, and the largest
\* offset of a payload above it, for which Display is defined below
FmtLimit == 1000000
WideLimit == 300

\* Display for FixedFloat, `self.0 as f64 / 10000.0` printed with {}: the
\* payload is converted to f64 (exactly, below 2^53), the division gives
\* the f64 nearest to the quotient, and {} prints the shortest decimal that
\* reads back as that f64, the nearest to it if there are several. The
\* printed number is given as its sign, its whole part (high * 2^39 + whole)
\* and its digits after the point as a count of 1/10000 (frac); {} prints
\* no trailing zeros and no point before an empty fraction.
\* Below 2^39 the f64 are less than 1/10000 apart, so the quotient of a
\* payload is the only number of four decimals that reads back as its f64,
\* and the payload is printed exactly. From 2^39 to 2^40 the f64 are
\* 1/8192 apart: the f64 of the payload 2^39 * 10000 + low is
\* 2^39 + m / 8192 with m the integer nearest to low * 8192 / 10000, and a
\* number 2^39 + r / 10000 reads back as it when |r / 10000 - m / 8192| is
\* less than 1 / 16384, which two r can satisfy.
Display_f64(high, low) ==
    CASE high = 0 /\ Abs(low) <= FmtLimit ->
             [negative |-> low < 0, high |-> 0,
              whole |-> Abs(low) \div Scale, frac |-> Abs(low) % Scale]
      [] high = 1 /\ low \in 0..WideLimit ->
             LET m == (1024 * low + 625) \div 1250
                 Distance(r) == Abs(1024 * r - 1250 * m)
                 near == {r \in (low - 1)..(low + 1) : Distance(r) < 625}
                 shorter == {r \in near : r % 10 = 0}
                 shown == IF shorter # {}
                          THEN CHOOSE r \in shorter : TRUE
                          ELSE CHOOSE r \in near :
                                   \A other \in near : Distance(r) <= Distance(other)
             IN  [negative |-> FALSE, high |-> 1,
                  whole |-> shown \div Scale, frac |-> shown % Scale]

\* Display for FixedFloat of a payload of the engine specifications
FixedFloat_fmt(v) == Display_f64(0, v)

\* FixedFloat + FixedFloat
FixedFloat_add(a, b) == a + b

\* Mutant: a snapshot line whose total is the available balance alone
write_row_totalIsAvailable(client_id, account_state) ==
    [client |-> client_id,
     available |-> FixedFloat_fmt(account_state.available),
     held |-> FixedFloat_fmt(account_state.held),
     total |-> FixedFloat_fmt(account_state.available),
     locked |-> account_state.locked]

\* One line of the snapshot: client,available,held,total,locked
write_row(client_id, account_state) ==
    [client |-> client_id,
     available |-> FixedFloat_fmt(account_state.available),
     held |-> FixedFloat_fmt(account_state.held),
     total |-> FixedFloat_fmt(FixedFloat_add(account_state.available,
                                             account_state.held)),
     locked |-> account_state.locked]

\* The lines State::write has to write: the header, then one line per entry
\* of accounts in the order the HashMap iterates (`order`, any enumeration
\* of its keys)
Header == "client,available,held,total,locked"
write_lines(accounts_, order) ==
    <<Header>> \o [i \in 1..Len(order) |-> write_row(order[i], accounts_[order[i]])]

\* The std::io::Error of a writeln! that failed
IoError == [tag |-> "IoError"]

\* What a sink holds of one line: the whole line, or a part of it
Whole(line) == [whole |-> TRUE, line |-> line]
Torn(line) == [whole |-> FALSE, line |-> line]

\* What a sink can hold of the lines: the first k of them whole, and
\* possibly a part of the next one
Received(lines) ==
    LET First(k) == [i \in 1..k |-> Whole(lines[i])]
    IN  {First(k) : k \in 0..Len(lines)}
        \cup {Append(First(k), Torn(lines[k + 1])) : k \in 0..(Len(lines) - 1)}

\* State::write into a writer of any kind: each writeln! is followed by `?`,
\* so the call returns Ok(()) when no writeln! failed and else the io::Error
\* of the first one that failed. What the sink holds when the call has
\* returned depends on the writer, which write owns and drops: a writer
\* that buffers can report Ok for lines that never reach the sink (nothing
\* flushes before the drop, and the drop ignores the error), and can bring
\* the line of the failed writeln! to the sink when it is dropped.
write(accounts_, order) ==
    [written : Received(write_lines(accounts_, order)), result : {Ok, IoError}]

\* State::write(std::io::stdout()): stdout is line-buffered and outlives the
\* call. Every line reaches file descriptor 1 as its writeln! returns Ok;
\* when descriptor 1 is not open, std takes each write for done and nothing
\* is written. A writeln! that fails ends the call, and of its line nothing
\* or a part is written. The header is one piece that ends in a newline and
\* goes to the descriptor past the empty buffer, so nothing of it is kept;
\* a row is formatted piece by piece into the buffer of stdout, and what the
\* failed flush did not write stays there (pending is the number of that
\* line in write_lines, 0 when the buffer is empty).
write_stdout(accounts_, order) ==
    LET lines == write_lines(accounts_, order)
        First(k) == [i \in 1..k |-> Whole(lines[i])]
        Pending(k) == IF k = 0 THEN 0 ELSE k + 1
    IN  {[written |-> First(Len(lines)), pending |-> 0, result |-> Ok],
         [written |-> <<>>, pending |-> 0, result |-> Ok]}
        \cup {[written |-> First(k), pending |-> Pending(k),
                result |-> IoError] : k \in 0..(Len(lines) - 1)}
        \cup {[written |-> Append(First(k), Torn(lines[k + 1])),
                pending |-> Pending(k),
                result |-> IoError] : k \in 0..(Len(lines) - 1)}

\* The buffer of stdout after the outcome o of write_stdout
buffer_after(accounts_, order, o) ==
    IF o.pending = 0 THEN <<>>
    ELSE <<write_lines(accounts_, order)[o.pending]>>

\* The flush of stdout when the process exits: what is left in the buffer
\* is written whole, in part or not at all; out_ is what descriptor 1 had
\* received before
flush_at_exit(out_, buffer_) ==
    IF buffer_ = <<>> THEN {out_}
    ELSE LET line == buffer_[1]
             torn == out_ # <<>> /\ ~out_[Len(out_)].whole
             before == IF torn THEN SubSeq(out_, 1, Len(out_) - 1) ELSE out_
         IN  {out_, Append(before, Torn(line)), Append(before, Whole(line))}

\* The enumerations of a finite set, as sequences without repetition
Orders(S) ==
    {o \in [1..Cardinality(S) -> S] : \A i, j \in DOMAIN o : o[i] = o[j] => i = j}

\* ----------------------------------------------------------------- decoder
\* An f64 amount of a CSV field: the decimal literal value * 1e-5, counted in
\* tenths of a FixedFloat unit, so that the model has amounts the conversion
\* must round, the decimal halves (last digit 5) among them.
F64Amounts == {10 * a + d : a \in Amounts, d \in {0, 4, 5}}
None == [some |-> FALSE]
Some(v) == [some |-> TRUE, value |-> v]

\* The largest magnitude of an f64 amount (in the unit of F64Amounts) for
\* which the conversion is defined below
F64Limit == 1000

\* The magnitudes of the decimal halves up to F64Limit whose f64 product
\* value * 10000.0 is below the half: the f64 nearest to 0.00015 times
\* 10000.0 is 1.4999999999999998, and likewise for the others (IEEE-754
\* binary64, round to nearest even)
BelowHalf == {15, 145, 465, 565, 815, 845}

\* From<f64> for FixedFloat: (value * 10000.0).round() as i64. f64::round
\* rounds the f64 product to the nearest integer, half-way cases away from
\* zero. Up to F64Limit the product of a decimal that is not a half is
\* nearer to the same integer as the decimal, and the product of a decimal
\* half is the half itself or the f64 just below it, and then rounds
\* towards zero. Amounts beyond F64Limit (where the product of a decimal
\* that is not a half can be a half), NaN (which the cast makes 0) and the
\* values the cast saturates at the i64 bounds are outside the operator's
\* domain.
FixedFloat_from(value) ==
    LET m == Abs(value)
        sign == IF value < 0 THEN 0 - 1 ELSE 1
    IN  CASE m <= F64Limit /\ m % 10 # 5 -> sign * ((m + 5) \div 10)
          [] m <= F64Limit /\ m % 10 = 5 ->
                 sign * (IF m \in BelowHalf THEN m \div 10 ELSE m \div 10 + 1)

\* TransactionFields, as the csv crate deserialises one record
TransactionFields ==
    [type_ : {"deposit", "withdrawal", "dispute", "resolve", "chargeback", "transfer"},
     client_id : ClientIds,
     transaction_id : TransactionIds,
     amount : {None} \cup {Some(v) : v \in F64Amounts}]

\* TryFrom<TransactionFields> for Transaction
try_from(fields) ==
    LET Good(inner) ==
            [ok |-> TRUE,
             txn |-> Transaction_new(fields.transaction_id, fields.client_id, inner)]
        Bad(e) == [ok |-> FALSE, error |-> e]
    IN  CASE fields.type_ = "deposit" ->
                 IF fields.amount.some
                 THEN Good(Deposit(FixedFloat_from(fields.amount.value)))
                 ELSE Bad("DepositMissingAmount")
          [] fields.type_ = "withdrawal" ->
                 IF fields.amount.some
                 THEN Good(Withdrawal(FixedFloat_from(fields.amount.value)))
                 ELSE Bad("WithdrawalMissingAmount")
          [] fields.type_ = "dispute" -> Good(Dispute)
          [] fields.type_ = "resolve" -> Good(Resolve)
          [] fields.type_ = "chargeback" -> Good(Chargeback)
          [] OTHER -> Bad("UnrecognisedType")

\* ------------------------------------------------------------------- state
VARIABLES
    transactions,   \* State.transactions: TransactionId -> Transaction
    accounts,       \* State.accounts: ClientId -> AccountState
    txn,            \* the argument of the latest process call (NoTxn before)
    result,         \* what the latest process call returned
    pre,            \* both maps as they were when the latest call began
    calls,          \* number of process calls made so far
    debited,        \* ids of the stored withdrawals whose amount was subtracted
    pc,             \* run(): "opening", "reading", returned "done" (Ok) or
                    \* "aborted" (Err); the process has ended: "exit0",
                    \* "exit1" or, by a panic, "exit101"
    out,            \* the lines written to stdout
    input,          \* the CsvFileReader: None until it is made, then Some of
                    \* the items it will yield, in file order
    pos,            \* how many of them the reader has yielded so far
    applied,        \* the transactions run() passed to process, in call order
    buffer,         \* the line left in the buffer of stdout, if any
    render          \* RenderSpec: a balance and what Display has shown of it

vars == <<transactions, accounts, txn, result, pre, calls, debited, pc, out,
          input, pos, applied, buffer, render>>

NoTxn == [kind |-> "None"]
NoRender == [balance |-> Wide(0, 0), shown |-> None]

\* State::default(), and run() about to read the first record
Init ==
    /\ transactions = EmptyMap
    /\ accounts = EmptyMap
    /\ txn = NoTxn
    /\ result = Ok
    /\ pre = [transactions |-> EmptyMap, accounts |-> EmptyMap]
    /\ calls = 0
    /\ debited = {}
    /\ pc = "reading"
    /\ out = <<>>
    /\ input = None
    /\ pos = 0
    /\ applied = <<>>
    /\ buffer = <<>>
    /\ render = NoRender

\* One call state.process(t)
Call(t) ==
    /\ calls < MaxCalls
    /\ LET r == process(transactions, accounts, t)
       IN  /\ transactions' = r.transactions
           /\ accounts' = r.accounts
           /\ result' = r.result
           /\ debited' =
                 IF /\ t.inner.kind = "Withdrawal"
                    /\ t.transaction_id \notin DOMAIN transactions
                    /\ t.transaction_id \in DOMAIN r.transactions
                    /\ get_or_create_account(accounts, t.client_id)[t.client_id].available
                          >= t.inner.amount
                 THEN debited \cup {t.transaction_id}
                 ELSE debited
    /\ txn' = t
    /\ pre' = [transactions |-> transactions, accounts |-> accounts]
    /\ calls' = calls + 1

\* ------------------------------------------- Spec: process called directly
ProcessDeposit ==
    /\ \E id \in TransactionIds, c \in ClientIds, a \in Amounts :
           Call(Transaction_new(id, c, Deposit(a)))
    /\ UNCHANGED <<pc, out, input, pos, applied, buffer, render>>

ProcessWithdrawal ==
    /\ \E id \in TransactionIds, c \in ClientIds, a \in Amounts :
           Call(Transaction_new(id, c, Withdrawal(a)))
    /\ UNCHANGED <<pc, out, input, pos, applied, buffer, render>>

ProcessDispute ==
    /\ \E id \in TransactionIds, c \in ClientIds :
           Call(Transaction_new(id, c, Dispute))
    /\ UNCHANGED <<pc, out, input, pos, applied, buffer, render>>

ProcessResolve ==
    /\ \E id \in TransactionIds, c \in ClientIds :
           Call(Transaction_new(id, c, Resolve))
    /\ UNCHANGED <<pc, out, input, pos, applied, buffer, render>>

ProcessChargeback ==
    /\ \E id \in TransactionIds, c \in ClientIds :
           Call(Transaction_new(id, c, Chargeback))
    /\ UNCHANGED <<pc, out, input, pos, applied, buffer, render>>

Next ==
    \/ ProcessDeposit
    \/ ProcessWithdrawal
    \/ ProcessDispute
    \/ ProcessResolve
    \/ ProcessChargeback

Spec == Init /\ [][Next]_vars

\* ------------------------------------------------- RunSpec: main.rs run()
\* The reader yields a record that decodes: state.process(result?)? is
\* called, and an Err of process ends the run
RunProcess ==
    /\ pc = "reading"
    /\ \E fields \in TransactionFields :
           /\ try_from(fields).ok
           /\ Call(try_from(fields).txn)
    /\ pc' = IF result' = Ok THEN "reading" ELSE "aborted"
    /\ UNCHANGED <<out, input, pos, applied, buffer, render>>

\* The reader yields a record whose fields make no transaction: `result?`
\* returns the TransactionFieldsError
RunDecodeError ==
    /\ pc = "reading"
    /\ calls < MaxCalls
    /\ \E fields \in TransactionFields : ~try_from(fields).ok
    /\ pc' = "aborted"
    /\ UNCHANGED <<transactions, accounts, txn, result, pre, calls, debited, out,
                   input, pos, applied, buffer, render>>

\* The csv reader fails (the file cannot be opened, a record does not
\* deserialise): the csv::Error is returned
RunCsvError ==
    /\ pc = "reading"
    /\ calls < MaxCalls
    /\ pc' = "aborted"
    /\ UNCHANGED <<transactions, accounts, txn, result, pre, calls, debited, out,
                   input, pos, applied, buffer, render>>

\* The reader is exhausted: state.write(std::io::stdout())? and Ok(()); an
\* io::Error of the write is returned by run()
RunWrite ==
    /\ pc = "reading"
    /\ \E order \in Orders(DOMAIN accounts) :
           \E o \in write_stdout(accounts, order) :
               /\ out' = out \o o.written
               /\ buffer' = buffer_after(accounts, order, o)
               /\ pc' = IF o.result = Ok THEN "done" ELSE "aborted"
    /\ UNCHANGED <<transactions, accounts, txn, result, pre, calls, debited,
                   input, pos, applied, render>>

\* main(): run() has returned. On Ok main() returns and the process exits
\* with status 0. On Err, eprintln! writes the error to stderr and
\* std::process::exit(1) ends the process with status 1; when stderr cannot
\* be written eprintln! panics instead, and the process ends with status
\* 101. As the process ends, stdout is flushed
RunExit ==
    /\ pc \in {"done", "aborted"}
    /\ out' \in flush_at_exit(out, buffer)
    /\ buffer' = <<>>
    /\ pc' \in IF pc = "done" THEN {"exit0"} ELSE {"exit1", "exit101"}
    /\ UNCHANGED <<transactions, accounts, txn, result, pre, calls, debited,
                   input, pos, applied, render>>

RunNext ==
    \/ RunProcess
    \/ RunDecodeError
    \/ RunCsvError
    \/ RunWrite
    \/ RunExit

RunSpec == Init /\ [][RunNext]_vars

\* ----------------------------- DepositsSpec: process called with Deposits
\* Streams of Deposits only, with as many ids to choose from as there are
\* calls, so that a whole series can be made of fresh ids
DepositIds == 1..MaxCalls

ProcessDepositSeries ==
    /\ \E id \in DepositIds, c \in ClientIds, a \in Amounts :
           Call(Transaction_new(id, c, Deposit(a)))
    /\ UNCHANGED <<pc, out, input, pos, applied, buffer, render>>

DepositsNext == ProcessDepositSeries

DepositsSpec == Init /\ [][DepositsNext]_vars

\* ------------------------------ StreamSpec: run() over a given input file
\* The longest input file
MaxStream == 4

\* What the csv reader yields for one line of the file: the fields of a
\* record, or a csv::Error for a line that does not deserialise
CsvOk(fields) == [csv |-> TRUE, fields |-> fields]
CsvErr == [csv |-> FALSE]

\* The lines an input file is made of
StreamItems ==
    {CsvOk([type_ |-> "deposit", client_id |-> 1, transaction_id |-> 1,
            amount |-> Some(10)]),
     CsvOk([type_ |-> "withdrawal", client_id |-> 1, transaction_id |-> 2,
            amount |-> Some(15)]),
     CsvOk([type_ |-> "dispute", client_id |-> 2, transaction_id |-> 1,
            amount |-> None]),
     CsvOk([type_ |-> "resolve", client_id |-> 1, transaction_id |-> 1,
            amount |-> None]),
     CsvOk([type_ |-> "chargeback", client_id |-> 1, transaction_id |-> 1,
            amount |-> None]),
     CsvOk([type_ |-> "deposit", client_id |-> 2, transaction_id |-> 2,
            amount |-> None]),
     CsvOk([type_ |-> "transfer", client_id |-> 1, transaction_id |-> 2,
            amount |-> Some(10)]),
     CsvErr}

Streams == UNION {[1..n -> StreamItems] : n \in 0..MaxStream}

\* run() is entered: nothing is opened, read or written yet
StreamInit ==
    /\ transactions = EmptyMap
    /\ accounts = EmptyMap
    /\ txn = NoTxn
    /\ result = Ok
    /\ pre = [transactions |-> EmptyMap, accounts |-> EmptyMap]
    /\ calls = 0
    /\ debited = {}
    /\ pc = "opening"
    /\ out = <<>>
    /\ input = None
    /\ pos = 0
    /\ applied = <<>>
    /\ buffer = <<>>
    /\ render = NoRender

\* std::env::args().nth(1) is None: run() returns "Input filename not
\* specified"
StreamNoArgument ==
    /\ pc = "opening"
    /\ pc' = "aborted"
    /\ UNCHANGED <<transactions, accounts, txn, result, pre, calls, debited, out,
                   input, pos, applied, buffer, render>>

\* std::env::args() panics, an argument of the process not being valid
\* Unicode: the process ends with status 101, nothing read or written
StreamArgsPanic ==
    /\ pc = "opening"
    /\ pc' = "exit101"
    /\ UNCHANGED <<transactions, accounts, txn, result, pre, calls, debited, out,
                   input, pos, applied, buffer, render>>

\* CsvFileReader::new fails (the file cannot be opened): run() returns the
\* csv::Error
StreamOpenError ==
    /\ pc = "opening"
    /\ pc' = "aborted"
    /\ UNCHANGED <<transactions, accounts, txn, result, pre, calls, debited, out,
                   input, pos, applied, buffer, render>>

\* CsvFileReader::new succeeds: the reader will yield the lines of the file
StreamOpen ==
    /\ pc = "opening"
    /\ input' \in {Some(stream) : stream \in Streams}
    /\ pc' = "reading"
    /\ UNCHANGED <<transactions, accounts, txn, result, pre, calls, debited, out,
                   pos, applied, buffer, render>>

\* Mutant: a loop that ignores the Err of process and reads on
StreamProcess_readsOn ==
    /\ pc = "reading"
    /\ pos < Len(input.value)
    /\ input.value[pos + 1].csv
    /\ try_from(input.value[pos + 1].fields).ok
    /\ Call(try_from(input.value[pos + 1].fields).txn)
    /\ applied' = Append(applied, try_from(input.value[pos + 1].fields).txn)
    /\ pos' = pos + 1
    /\ pc' = "reading"
    /\ UNCHANGED <<out, input, buffer, render>>

\* The next line decodes: state.process(result?)? is called with it, and an
\* Err of process ends the run
StreamProcess ==
    /\ pc = "reading"
    /\ pos < Len(input.value)
    /\ input.value[pos + 1].csv
    /\ try_from(input.value[pos + 1].fields).ok
    /\ Call(try_from(input.value[pos + 1].fields).txn)
    /\ applied' = Append(applied, try_from(input.value[pos + 1].fields).txn)
    /\ pos' = pos + 1
    /\ pc' = IF result' = Ok THEN "reading" ELSE "aborted"
    /\ UNCHANGED <<out, input, buffer, render>>

\* Mutant: a decode error after which the accounts read so far are still
\* written out
StreamDecodeError_writes ==
    /\ pc = "reading"
    /\ pos < Len(input.value)
    /\ input.value[pos + 1].csv
    /\ ~try_from(input.value[pos + 1].fields).ok
    /\ pos' = pos + 1
    /\ \E order \in Orders(DOMAIN accounts) :
           \E o \in write_stdout(accounts, order) :
               /\ out' = out \o o.written
               /\ buffer' = buffer_after(accounts, order, o)
    /\ pc' = "aborted"
    /\ UNCHANGED <<transactions, accounts, txn, result, pre, calls, debited,
                   input, applied, render>>

\* The fields of the next line make no transaction: `result?` returns the
\* TransactionFieldsError
StreamDecodeError ==
    /\ pc = "reading"
    /\ pos < Len(input.value)
    /\ input.value[pos + 1].csv
    /\ ~try_from(input.value[pos + 1].fields).ok
    /\ pos' = pos + 1
    /\ pc' = "aborted"
    /\ UNCHANGED <<transactions, accounts, txn, result, pre, calls, debited, out,
                   input, applied, buffer, render>>

\* The next line does not deserialise: `result?` returns the csv::Error
StreamCsvError ==
    /\ pc = "reading"
    /\ pos < Len(input.value)
    /\ ~input.value[pos + 1].csv
    /\ pos' = pos + 1
    /\ pc' = "aborted"
    /\ UNCHANGED <<transactions, accounts, txn, result, pre, calls, debited, out,
                   input, applied, buffer, render>>

\* The reader is exhausted: state.write(std::io::stdout())? and Ok(()); an
\* io::Error of the write is returned by run()
StreamWrite ==
    /\ pc = "reading"
    /\ pos = Len(input.value)
    /\ \E order \in Orders(DOMAIN accounts) :
           \E o \in write_stdout(accounts, order) :
               /\ out' = out \o o.written
               /\ buffer' = buffer_after(accounts, order, o)
               /\ pc' = IF o.result = Ok THEN "done" ELSE "aborted"
    /\ UNCHANGED <<transactions, accounts, txn, result, pre, calls, debited,
                   input, pos, applied, render>>

\* main(): run() has returned. On Ok main() returns and the process exits
\* with status 0. On Err, eprintln! writes the error to stderr and
\* std::process::exit(1) ends the process with status 1; when stderr cannot
\* be written eprintln! panics instead, and the process ends with status
\* 101. As the process ends, stdout is flushed
StreamExit ==
    /\ pc \in {"done", "aborted"}
    /\ out' \in flush_at_exit(out, buffer)
    /\ buffer' = <<>>
    /\ pc' \in IF pc = "done" THEN {"exit0"} ELSE {"exit1", "exit101"}
    /\ UNCHANGED <<transactions, accounts, txn, result, pre, calls, debited,
                   input, pos, applied, render>>

StreamNext ==
    \/ StreamArgsPanic
    \/ StreamNoArgument
    \/ StreamOpenError
    \/ StreamOpen
    \/ StreamProcess
    \/ StreamDecodeError
    \/ StreamCsvError
    \/ StreamWrite
    \/ StreamExit

\* The process is sequential: while it has a step to take, it takes it
StreamSpec == StreamInit /\ [][StreamNext]_vars /\ WF_vars(StreamNext)

\* --------------------- RenderSpec: a balance near 2^39, added to, displayed
\* Largest offset of the balance above 2^39 * 10000
MaxLow == 30

\* FixedFloat += FixedFloat, on payloads that may be beyond 2^39 * 10000
FixedFloat_add_assign(a, b) == Wide(a.high + b.high, a.low + b.low)

\* The payloads of the Deposits: those of the amounts 549755813888 (which
\* is 2^39), 0.0001, 0.0002 and 0.0003
RenderAmounts == {Wide(1, 0)} \cup {Wide(0, FixedFloat_from(10 * a)) : a \in 1..3}

\* A Deposit with a fresh id is processed: account.available += amount.
\* State::write takes the State by value, so nothing is processed once the
\* balance has been displayed
RenderDeposit ==
    /\ ~render.shown.some
    /\ \E amount \in RenderAmounts :
           LET sum == FixedFloat_add_assign(render.balance, amount)
           IN  /\ sum.high <= 1
               /\ sum.low <= MaxLow
               /\ render' = [balance |-> sum, shown |-> None]
    /\ UNCHANGED <<transactions, accounts, txn, result, pre, calls, debited, pc,
                   out, input, pos, applied, buffer>>

\* State::write formats the balance for the row of the account
RenderDisplay ==
    /\ ~render.shown.some
    /\ render' = [render EXCEPT
                     !.shown = Some(Display_f64(render.balance.high,
                                                render.balance.low))]
    /\ UNCHANGED <<transactions, accounts, txn, result, pre, calls, debited, pc,
                   out, input, pos, applied, buffer>>

RenderNext ==
    \/ RenderDeposit
    \/ RenderDisplay

RenderSpec == Init /\ [][RenderNext]_vars

\* ------------------------------------------------------------ type checks
TypeOK ==
    /\ DOMAIN transactions \subseteq TransactionIds
    /\ DOMAIN accounts \subseteq ClientIds
    /\ calls \in 0..MaxCalls
    /\ debited \subseteq DOMAIN transactions
    /\ pc \in {"opening", "reading", "done", "aborted", "exit0", "exit1",
              "exit101"}

\* ------------------------------------------------- vocabulary of the claims
\* The latest process call, seen from outside: its argument txn, its return
\* value result, the maps before (pre) and after (transactions, accounts).
Called == txn # NoTxn
IsKind(k) == Called /\ txn.inner.kind = k
IsControl == Called /\ txn.inner.kind \in {"Dispute", "Resolve", "Chargeback"}
\* The account of client c in the map accs, or the account that
\* get-or-create would make for it
AccountOf(accs, c) == IF c \in DOMAIN accs THEN accs[c] ELSE AccountState_default
\* The latest call named a record that was in history when it began
NamedRecord == Called /\ txn.transaction_id \in DOMAIN pre.transactions
OldRecord == pre.transactions[txn.transaction_id]
StateUnchanged == accounts = pre.accounts /\ transactions = pre.transactions

\* ------------------------------------------------------------------ claims
\* C1 (as stated): when process returns an error, the accounts map and the
\* history map are exactly what they were before the call; in particular a
\* Deposit or unlocked Withdrawal (here: of a positive amount) that fails
\* with DuplicateTransactionId has not changed any balance.
C1_ErrorLeavesStateUnchanged ==
    (Called /\ result # Ok /\ txn.inner.amount > 0) => StateUnchanged

\* C2: a record is created Alive, and its lifecycle_state changes only
\* Alive -> Disputed by a Dispute naming it, Disputed -> Alive by a Resolve
\* naming it, Disputed -> ChargedBack by a Chargeback naming it; a
\* ChargedBack record never changes state again.
C2_LifecycleTransitions ==
    /\ \A id \in DOMAIN pre.transactions :
          /\ id \in DOMAIN transactions
          /\ LET old == pre.transactions[id].state
                 new == transactions[id].state
             IN  old # new =>
                   /\ txn.transaction_id = id
                   /\ \/ old = Alive /\ new = Disputed /\ txn.inner = Dispute
                      \/ old = Disputed /\ new = Alive /\ txn.inner = Resolve
                      \/ old = Disputed /\ new = ChargedBack /\ txn.inner = Chargeback
    /\ \A id \in DOMAIN transactions \ DOMAIN pre.transactions :
          transactions[id].state = Alive

\* C2's case: a transaction naming a ChargedBack record has been processed.
C2_Witness ==
    /\ NamedRecord
    /\ OldRecord.state = ChargedBack
    /\ txn.inner.kind \in {"Dispute", "Resolve", "Chargeback"}

\* C3: a Deposit with a fresh id adds its amount to the client's available,
\* locked or not (the account being (0, 0, false) if new), leaves held,
\* locked and every other account alone, and stores an Alive record.
C3_DepositCredits ==
    (IsKind("Deposit") /\ ~NamedRecord) =>
        LET c == txn.client_id
            old == AccountOf(pre.accounts, c)
        IN  /\ result = Ok
            /\ DOMAIN accounts = DOMAIN pre.accounts \cup {c}
            /\ accounts[c].available = old.available + txn.inner.amount
            /\ accounts[c].held = old.held
            /\ accounts[c].locked = old.locked
            /\ \A d \in DOMAIN pre.accounts \ {c} : accounts[d] = pre.accounts[d]
            /\ txn.transaction_id \in DOMAIN transactions
            /\ transactions[txn.transaction_id].state = Alive
            /\ transactions[txn.transaction_id].inner = txn.inner

\* C3's case: a fresh Deposit has been applied to a locked account.
C3_Witness ==
    /\ IsKind("Deposit")
    /\ ~NamedRecord
    /\ txn.client_id \in DOMAIN pre.accounts
    /\ pre.accounts[txn.client_id].locked
    /\ txn.inner.amount > 0

\* C4: a Withdrawal with a fresh id against an unlocked account subtracts
\* its amount from available exactly when available >= amount, leaves held
\* and locked alone and is stored Alive in both cases; a later Deposit or
\* unlocked Withdrawal reusing the id of a stored withdrawal fails with
\* DuplicateTransactionId.
C4_WithdrawalUnlocked ==
    /\ (/\ IsKind("Withdrawal")
        /\ ~NamedRecord
        /\ ~AccountOf(pre.accounts, txn.client_id).locked) =>
           LET c == txn.client_id
               old == AccountOf(pre.accounts, c)
               id == txn.transaction_id
           IN  /\ result = Ok
               /\ accounts[c].available =
                    IF old.available >= txn.inner.amount
                    THEN old.available - txn.inner.amount
                    ELSE old.available
               /\ accounts[c].held = old.held
               /\ accounts[c].locked = old.locked
               /\ id \in DOMAIN transactions
               /\ transactions[id].state = Alive
               /\ transactions[id].inner = txn.inner
    /\ (/\ NamedRecord
        /\ OldRecord.inner.kind = "Withdrawal"
        /\ \/ txn.inner.kind = "Deposit"
           \/ /\ txn.inner.kind = "Withdrawal"
              /\ ~AccountOf(pre.accounts, txn.client_id).locked) =>
           result = DuplicateTransactionId(txn.transaction_id)

\* C4's case: a withdrawal that found insufficient funds was stored all the
\* same, and a Deposit reusing its id has failed.
C4_Witness ==
    /\ IsKind("Deposit")
    /\ NamedRecord
    /\ OldRecord.inner.kind = "Withdrawal"
    /\ OldRecord.inner.amount > 0
    /\ txn.transaction_id \notin debited
    /\ result = DuplicateTransactionId(txn.transaction_id)

\* C5: a Withdrawal against a locked account returns Ok and changes no
\* account and no record, whether or not its id is in history; so a Dispute
\* naming its id right afterwards finds either no record (and does nothing)
\* or the record that was stored under that id before the withdrawal.
C5_WithdrawalLockedDropped ==
    (/\ IsKind("Withdrawal")
     /\ AccountOf(pre.accounts, txn.client_id).locked) =>
        /\ result = Ok
        /\ StateUnchanged
        /\ \A c \in ClientIds :
             LET id == txn.transaction_id
                 d == process(transactions, accounts, Transaction_new(id, c, Dispute))
             IN  /\ d.result = Ok
                 /\ id \notin DOMAIN pre.transactions =>
                        /\ d.transactions = transactions
                        /\ d.accounts = accounts
                 /\ id \in DOMAIN pre.transactions =>
                        /\ DOMAIN d.transactions = DOMAIN pre.transactions
                        /\ d.transactions[id].inner = pre.transactions[id].inner
                        /\ d.transactions[id].client_id = pre.transactions[id].client_id

\* C5's case: a Withdrawal against a locked account has been processed,
\* under an id that history already holds.
C5_Witness ==
    /\ IsKind("Withdrawal")
    /\ txn.client_id \in DOMAIN pre.accounts
    /\ pre.accounts[txn.client_id].locked
    /\ NamedRecord
    /\ pre.accounts[txn.client_id].available >= txn.inner.amount

\* C6: a Dispute naming an Alive Deposit of amount X sets the record to
\* Disputed, takes X from the available of the record's client, adds X to
\* its held, and changes nothing else.
C6_DisputeDeposit ==
    (/\ IsKind("Dispute")
     /\ NamedRecord
     /\ OldRecord.state = Alive
     /\ OldRecord.inner.kind = "Deposit") =>
        LET id == txn.transaction_id
            c == OldRecord.client_id
            X == OldRecord.inner.amount
        IN  /\ result = Ok
            /\ c \in DOMAIN pre.accounts
            /\ transactions = [pre.transactions EXCEPT ![id].state = Disputed]
            /\ accounts = [pre.accounts EXCEPT ![c].available = @ - X,
                                               ![c].held = @ + X]
            /\ accounts[c].available + accounts[c].held
                 = pre.accounts[c].available + pre.accounts[c].held

\* C6's case: an Alive Deposit has been disputed, by a transaction that
\* carries another client's id, while another account exists.
C6_Witness ==
    /\ IsKind("Dispute")
    /\ NamedRecord
    /\ OldRecord.state = Alive
    /\ OldRecord.inner.kind = "Deposit"
    /\ OldRecord.inner.amount > 0
    /\ txn.client_id # OldRecord.client_id
    /\ txn.client_id \in DOMAIN accounts

\* C7 (as stated): disputing an Alive Withdrawal of amount X that had been
\* paid out of sufficient funds decreases held by X (below zero when held
\* was zero), leaves available unchanged by the Dispute, and sets the
\* withdrawal to Disputed.
C7_DisputeLeavesAvailable ==
    (/\ IsKind("Dispute")
     /\ NamedRecord
     /\ OldRecord.state = Alive
     /\ OldRecord.inner.kind = "Withdrawal"
     /\ OldRecord.inner.amount > 0
     /\ txn.transaction_id \in debited) =>
        LET c == OldRecord.client_id
            X == OldRecord.inner.amount
        IN  /\ accounts[c].held = pre.accounts[c].held - X
            /\ pre.accounts[c].held = 0 => accounts[c].held < 0
            /\ accounts[c].available = pre.accounts[c].available
            /\ transactions[txn.transaction_id].state = Disputed

\* C7 (amended): disputing an Alive Withdrawal of amount X that had been
\* paid out of sufficient funds decreases held by X (below zero when held
\* was zero and X is positive), increases available by X, and sets the
\* withdrawal to Disputed.
C7_DisputeWithdrawal ==
    (/\ IsKind("Dispute")
     /\ NamedRecord
     /\ OldRecord.state = Alive
     /\ OldRecord.inner.kind = "Withdrawal"
     /\ txn.transaction_id \in debited) =>
        LET c == OldRecord.client_id
            X == OldRecord.inner.amount
        IN  /\ result = Ok
            /\ c \in DOMAIN pre.accounts
            /\ accounts[c].held = pre.accounts[c].held - X
            /\ (pre.accounts[c].held = 0 /\ X > 0) => accounts[c].held < 0
            /\ accounts[c].available = pre.accounts[c].available + X
            /\ accounts[c].locked = pre.accounts[c].locked
            /\ transactions[txn.transaction_id].state = Disputed

\* C7's case: a paid-out Withdrawal of a positive amount has been disputed
\* and held has gone negative.
C7_Witness ==
    /\ IsKind("Dispute")
    /\ NamedRecord
    /\ OldRecord.state = Alive
    /\ OldRecord.inner.kind = "Withdrawal"
    /\ OldRecord.inner.amount > 0
    /\ txn.transaction_id \in debited
    /\ transactions[txn.transaction_id].state = Disputed
    /\ accounts[OldRecord.client_id].held < 0

\* C8: Dispute then Resolve of the same Alive record (Deposit or
\* Withdrawal) gives back the accounts map and the record's state as they
\* were before the Dispute, and so does every further Dispute+Resolve cycle.
\* After a Dispute that acted, the Resolve that may follow restores the maps
\* of before the Dispute; after a Resolve that acted, a further cycle ends
\* in the same maps again.
C8_DisputeResolveRoundTrip ==
    LET id == txn.transaction_id
        ResolveFrom(o, c) ==
            process(o.transactions, o.accounts, Transaction_new(id, c, Resolve))
        DisputeFrom(o, c) ==
            process(o.transactions, o.accounts, Transaction_new(id, c, Dispute))
        now == Outcome(transactions, accounts, result)
        Same(o, t, a) == o.result = Ok /\ o.transactions = t /\ o.accounts = a
    IN  /\ (IsKind("Dispute") /\ NamedRecord /\ OldRecord.state = Alive) =>
              /\ result = Ok
              /\ transactions[id].state = Disputed
              /\ \A c1, c2, c3 \in ClientIds :
                    LET r1 == ResolveFrom(now, c1)
                        r2 == ResolveFrom(DisputeFrom(r1, c2), c3)
                    IN  /\ Same(r1, pre.transactions, pre.accounts)
                        /\ r1.transactions[id].state = Alive
                        /\ Same(r2, pre.transactions, pre.accounts)
        /\ (IsKind("Resolve") /\ NamedRecord /\ OldRecord.state = Disputed) =>
              /\ result = Ok
              /\ transactions[id].state = Alive
              /\ \A c1, c2 \in ClientIds :
                    LET d == DisputeFrom(now, c1)
                        r == ResolveFrom(d, c2)
                    IN  /\ d.result = Ok
                        /\ d.transactions[id].state = Disputed
                        /\ Same(r, transactions, accounts)

\* C8's case: a Withdrawal was disputed and the Resolve that followed has
\* put the record back to Alive.
C8_Witness ==
    /\ IsKind("Resolve")
    /\ NamedRecord
    /\ OldRecord.state = Disputed
    /\ OldRecord.inner.kind = "Withdrawal"
    /\ OldRecord.inner.amount > 0
    /\ transactions[txn.transaction_id].state = Alive
    /\ accounts[OldRecord.client_id].held = 0

\* C9: a Chargeback naming a Disputed Deposit of amount X takes X from the
\* held of the record's client, locks that account, leaves its available
\* alone and sets the record to ChargedBack; a Dispute, Resolve or
\* Chargeback naming a ChargedBack record returns Ok and changes nothing.
C9_ChargebackDeposit ==
    /\ (/\ IsKind("Chargeback")
        /\ NamedRecord
        /\ OldRecord.state = Disputed
        /\ OldRecord.inner.kind = "Deposit") =>
           LET c == OldRecord.client_id
               X == OldRecord.inner.amount
           IN  /\ result = Ok
               /\ c \in DOMAIN pre.accounts
               /\ accounts[c].held = pre.accounts[c].held - X
               /\ accounts[c].locked
               /\ accounts[c].available = pre.accounts[c].available
               /\ transactions[txn.transaction_id].state = ChargedBack
    /\ (/\ IsControl
        /\ NamedRecord
        /\ OldRecord.state = ChargedBack) =>
           /\ result = Ok
           /\ StateUnchanged

\* C9's case: a Deposit was charged back, and a Chargeback naming it again
\* has been processed.
C9_Witness ==
    /\ IsKind("Chargeback")
    /\ NamedRecord
    /\ OldRecord.state = ChargedBack
    /\ OldRecord.inner.kind = "Deposit"
    /\ OldRecord.inner.amount > 0
    /\ accounts[OldRecord.client_id].locked

\* run() has returned Ok(()), or main() has exited with status 0
ReturnedOk == pc \in {"done", "exit0"}

\* The run has failed: run() has returned an Err or has panicked, and the
\* process may have ended with status 1 or 101
Failed == pc \in {"aborted", "exit1", "exit101"}

\* The process has ended
Exited == pc \in {"exit0", "exit1", "exit101"}

\* C10: in a run, a Deposit whose id is that of an earlier, successfully
\* applied Deposit makes process return DuplicateTransactionId with that
\* id, history keeps the one record of the id as it was, and the run stops:
\* once run() has returned the error no further transaction is applied and
\* nothing is written, and when the process has ended (with status 1, or
\* 101 if stderr could not be written) no step is left.
C10_DuplicateDepositAborts ==
    /\ ~Failed => result = Ok
    /\ (/\ IsKind("Deposit")
        /\ NamedRecord
        /\ OldRecord.inner.kind = "Deposit") =>
           /\ result = DuplicateTransactionId(txn.transaction_id)
           /\ transactions = pre.transactions
           /\ Failed
           /\ out = <<>>
    /\ Failed =>
           /\ ~ENABLED RunProcess
           /\ ~ENABLED RunWrite
    /\ Exited => ~ENABLED RunNext

\* C10's case: the second Deposit of an id has been refused, run() has
\* returned the error and the process has exited with status 1.
C10_Witness ==
    /\ IsKind("Deposit")
    /\ NamedRecord
    /\ OldRecord.inner.kind = "Deposit"
    /\ result = DuplicateTransactionId(txn.transaction_id)
    /\ pc = "exit1"

\* The latest call was a Dispute, Resolve or Chargeback that found its
\* record in the state it requires (Alive for Dispute, Disputed otherwise)
Effective ==
    /\ IsControl
    /\ NamedRecord
    /\ OldRecord.state = (IF txn.inner.kind = "Dispute" THEN Alive ELSE Disputed)

\* C11: the expected anomalies are no-ops. A Dispute, Resolve or Chargeback
\* whose id is not in history, a Dispute of a record that is not Alive and a
\* Resolve or Chargeback of a record that is not Disputed return Ok and
\* leave both maps as they were; no account appears for the client named in
\* the transaction.
C11_AnomaliesAreNoOps ==
    (IsControl /\ ~Effective) =>
        /\ result = Ok
        /\ StateUnchanged
        /\ txn.client_id \notin DOMAIN pre.accounts =>
               txn.client_id \notin DOMAIN accounts

\* C11's case: a Resolve naming an id that history does not hold, from a
\* client without an account, has been processed while another account and
\* another record exist.
C11_Witness ==
    /\ IsKind("Resolve")
    /\ ~NamedRecord
    /\ txn.client_id \notin DOMAIN accounts
    /\ DOMAIN accounts # {}
    /\ DOMAIN transactions # {}

\* The amount a dispute-family call moves for record r: +amount for a
\* Deposit, -amount for a Withdrawal
SignedAmount(r) ==
    IF r.inner.kind = "Deposit" THEN r.inner.amount ELSE 0 - r.inner.amount

\* C12: an effective Dispute, Resolve or Chargeback changes only the account
\* of the client stored in the record it names. The account of the
\* transaction's own client, when that is another client, is neither
\* modified nor created; the record's client receives the balance and lock
\* changes.
C12_OnlyRecordsClientChanges ==
    Effective =>
        LET c == OldRecord.client_id
            A == SignedAmount(OldRecord)
            k == txn.inner.kind
            old == pre.accounts[c]
        IN  /\ c \in DOMAIN pre.accounts
            /\ DOMAIN accounts = DOMAIN pre.accounts
            /\ \A d \in DOMAIN accounts \ {c} : accounts[d] = pre.accounts[d]
            /\ k = "Dispute" =>
                 accounts[c] = [available |-> old.available - A,
                                held |-> old.held + A,
                                locked |-> old.locked]
            /\ k = "Resolve" =>
                 accounts[c] = [available |-> old.available + A,
                                held |-> old.held - A,
                                locked |-> old.locked]
            /\ k = "Chargeback" =>
                 accounts[c] = [available |-> old.available,
                                held |-> old.held - A,
                                locked |-> TRUE]

\* C12's case: a Chargeback carrying the id of a client that has no account
\* has charged back another client's record.
C12_Witness ==
    /\ Effective
    /\ IsKind("Chargeback")
    /\ txn.client_id # OldRecord.client_id
    /\ txn.client_id \notin DOMAIN accounts
    /\ accounts[OldRecord.client_id].locked
    /\ OldRecord.inner.amount > 0

\* C13 (as stated): after process has been called with a transaction of any
\* kind naming client c, the accounts map has an entry for c.
C13_AnyKindCreatesAccount ==
    Called => txn.client_id \in DOMAIN accounts

\* C13 (amended): an account is default-constructed as (0, 0, false) the
\* first time its client is named by a Deposit or a Withdrawal: after such
\* a call the map has an entry for the client, which, if new, is the default
\* account with the call's own effect on available; a Dispute, Resolve or
\* Chargeback never adds an account.
C13_DepositOrWithdrawalCreatesAccount ==
    /\ (IsKind("Deposit") \/ IsKind("Withdrawal")) =>
          LET c == txn.client_id
              a == txn.inner.amount
          IN  /\ DOMAIN accounts = DOMAIN pre.accounts \cup {c}
              /\ c \notin DOMAIN pre.accounts =>
                    /\ accounts[c].held = 0
                    /\ accounts[c].locked = FALSE
                    /\ accounts[c].available =
                         IF txn.inner.kind = "Deposit" THEN a
                         ELSE IF 0 >= a THEN 0 - a ELSE 0
    /\ IsControl => DOMAIN accounts = DOMAIN pre.accounts

\* C13's case: a Withdrawal has named a client for the first time and left
\* the default account behind.
C13_Witness ==
    /\ IsKind("Withdrawal")
    /\ txn.client_id \notin DOMAIN pre.accounts
    /\ DOMAIN pre.accounts # {}
    /\ accounts[txn.client_id] = AccountState_default

\* Every call so far stored a record (so every call was a Deposit or
\* Withdrawal with an id not used before), and every record is a Deposit of
\* client c: the calls so far were Deposits with distinct ids to c alone.
OnlyFreshDepositsTo(c) ==
    /\ calls > 0
    /\ Cardinality(DOMAIN transactions) = calls
    /\ \A id \in DOMAIN transactions :
          /\ transactions[id].inner.kind = "Deposit"
          /\ transactions[id].client_id = c

\* The sum of the amounts of the records stored under the ids in S
RECURSIVE SumOfAmounts(_)
SumOfAmounts(S) ==
    IF S = {} THEN 0
    ELSE LET id == CHOOSE x \in S : TRUE
         IN  transactions[id].inner.amount + SumOfAmounts(S \ {id})

\* C14: after a series of Deposits with distinct ids to one new client, the
\* client's available is the sum of the deposited amounts, its held is 0,
\* it is not locked, and no other account exists.
C14_DepositsSumUp ==
    \A c \in ClientIds :
        OnlyFreshDepositsTo(c) =>
            /\ DOMAIN accounts = {c}
            /\ accounts[c].available = SumOfAmounts(DOMAIN transactions)
            /\ accounts[c].held = 0
            /\ accounts[c].locked = FALSE

\* C14's case: three or more Deposits with distinct ids, positive and
\* negative amounts among them, have been applied to client 2 alone.
C14_Witness ==
    /\ OnlyFreshDepositsTo(2)
    /\ calls >= 3
    /\ \E i, j \in DOMAIN transactions :
          /\ transactions[i].inner.amount > 0
          /\ transactions[j].inner.amount < 0
    /\ accounts[2].available > 0

\* The number a rendered amount stands for, in FixedFloat units
Rendered(r) == (IF r.negative THEN 0 - 1 ELSE 1) * (r.whole * Scale + r.frac)

\* The line i of the input decodes to a transaction
Decodes(i) == input.value[i].csv /\ try_from(input.value[i].fields).ok
Decoded(i) == try_from(input.value[i].fields).txn

\* What applying the first n lines of the input once each, in file order,
\* to an empty engine gives, stopping at the first line that does not decode
\* or that process refuses (stopped names that line, 0 if there is none)
RECURSIVE Replay(_)
Replay(n) ==
    IF n = 0
    THEN [transactions |-> EmptyMap, accounts |-> EmptyMap, stopped |-> 0,
          applied |-> <<>>]
    ELSE LET p == Replay(n - 1)
         IN  IF p.stopped # 0 THEN p
             ELSE IF ~Decodes(n) THEN [p EXCEPT !.stopped = n]
             ELSE LET r == process(p.transactions, p.accounts, Decoded(n))
                  IN  [transactions |-> r.transactions,
                       accounts |-> r.accounts,
                       stopped |-> IF r.result = Ok THEN 0 ELSE n,
                       applied |-> Append(p.applied, Decoded(n))]

\* The lines of out after the header
SnapshotRows == [i \in 1..(Len(out) - 1) |-> out[i + 1].line]

\* Every line of the input decodes and is applied without error
AllLinesGood == Replay(Len(input.value)).stopped = 0

\* What a sink holds is the whole snapshot of the accounts map, for some
\* iteration order of the map
SnapshotWhole(received) ==
    \E order \in Orders(DOMAIN accounts) :
        LET lines == write_lines(accounts, order)
        IN  received = [i \in 1..Len(lines) |-> Whole(lines[i])]

\* What a sink holds is a beginning of one snapshot of the accounts map
\* (nothing, and the whole of it, included)
SnapshotPart(received) ==
    \E order \in Orders(DOMAIN accounts) :
        received \in Received(write_lines(accounts, order))

\* C15 (as stated): a run over an input stream emits the snapshot exactly
\* once when every record was decoded and applied without error, and emits
\* nothing, not even a part of it, when a decode or engine error occurred;
\* the snapshot comes only after the last transaction has been applied.
C15_SnapshotOnlyOnSuccess ==
    /\ pc \in {"opening", "reading"} => out = <<>>
    /\ out # <<>> => /\ pos = Len(input.value)
                     /\ Len(applied) = Len(input.value)
    /\ (input.some /\ Exited) =>
          IF AllLinesGood THEN SnapshotWhole(out) ELSE out = <<>>

\* C15 (amended): a run over an input stream whose every record was
\* decoded and applied without error emits the snapshot exactly once and
\* exits with status 0 when no write to stdout fails (nothing at all when
\* stdout is not open, as every write then counts as done); when a write
\* fails the process ends with status 1, or with 101 when stderr cannot be
\* written either, and stdout has received a beginning of the snapshot:
\* nothing, some lines and possibly a part of the next one, or, when the
\* flush at exit delivers the line that failed, all of it. The run emits
\* nothing, not even a part, when a decode or engine error occurred or no
\* reader was made; whatever is written is written after the last
\* transaction has been applied.
C15_SnapshotOnSuccessfulWrite ==
    /\ pc \in {"opening", "reading"} => out = <<>>
    /\ ~input.some => out = <<>>
    /\ (input.some /\ ~AllLinesGood) => out = <<>>
    /\ out # <<>> => /\ pos = Len(input.value)
                     /\ Len(applied) = Len(input.value)
                     /\ SnapshotPart(out)
    /\ ReturnedOk =>
          /\ input.some
          /\ AllLinesGood
          /\ pos = Len(input.value)
          /\ result = Ok
          /\ buffer = <<>>
          /\ SnapshotWhole(out) \/ out = <<>>
    /\ (pc = "aborted" /\ input.some /\ AllLinesGood) =>
          /\ pos = Len(input.value)
          /\ SnapshotPart(out)
          /\ ~SnapshotWhole(out)
          /\ buffer # <<>> => /\ out # <<>>
                              /\ out[1] = Whole(Header)
                              /\ buffer[1].client \in DOMAIN accounts
    /\ (Failed /\ input.some /\ AllLinesGood) =>
          /\ pos = Len(input.value)
          /\ result = Ok
    /\ pc = "exit0" <=> (Exited /\ ReturnedOk)
    /\ Exited =>
          /\ buffer = <<>>
          /\ ~ENABLED StreamNext

\* C15's case: every line of the input was applied, three or more of them,
\* the write of the account's row failed, and the flush at exit delivered
\* the row: the process has exited with status 1 and the whole snapshot is
\* on stdout.
C15_Witness ==
    /\ pc = "exit1"
    /\ input.some
    /\ AllLinesGood
    /\ Len(applied) >= 3
    /\ Len(out) = 2
    /\ SnapshotWhole(out)

\* The rows a sink holds whole name accounts of the map, each at most once,
\* and report the account's available, held and locked and, as total, the
\* sum of its available and held
RowsGood(received) ==
    LET rows == {i \in 2..Len(received) : received[i].whole}
    IN  /\ \A i, j \in rows :
              received[i].line.client = received[j].line.client => i = j
        /\ \A i \in rows :
              LET row == received[i].line
              IN  /\ row.client \in DOMAIN accounts
                  /\ Rendered(row.available) = accounts[row.client].available
                  /\ Rendered(row.held) = accounts[row.client].held
                  /\ row.locked = accounts[row.client].locked
                  /\ Rendered(row.total)
                       = accounts[row.client].available
                         + accounts[row.client].held
                  /\ Rendered(row.total)
                       = Rendered(row.available) + Rendered(row.held)

\* A sink that holds every line whole has the header first and a row for
\* every account of the map
RowsComplete(received) ==
    (/\ Len(received) = 1 + Cardinality(DOMAIN accounts)
     /\ \A i \in DOMAIN received : received[i].whole) =>
        /\ received[1].line = Header
        /\ {received[i].line.client : i \in 2..Len(received)} = DOMAIN accounts

\* C16, for the balances of RunSpec, all far below 2^39 * 10000: the
\* snapshot has exactly one row for each client in the accounts map and no
\* other row, and each row reports that client's available, held and
\* locked, and a total equal to the available plus the held of the account.
\* This holds of what State::write brings to a sink of any kind, for every
\* iteration order of the map, and of what stdout has received in a run.
C16_SnapshotRows ==
    /\ \A order \in Orders(DOMAIN accounts) :
          \A o \in write(accounts, order) :
              /\ RowsGood(o.written)
              /\ RowsComplete(o.written)
    /\ RowsGood(out)
    /\ RowsComplete(out)
    /\ (ReturnedOk /\ out # <<>>) =>
          /\ Len(SnapshotRows) = Cardinality(DOMAIN accounts)
          /\ \A i \in DOMAIN out : out[i].whole
          /\ {SnapshotRows[i].client : i \in DOMAIN SnapshotRows}
                = DOMAIN accounts

\* C16's case: a snapshot of two accounts has been written and the process
\* has exited with status 0; one account has funds held and available, and
\* one row has a negative total.
C16_Witness ==
    /\ pc = "exit0"
    /\ Cardinality(DOMAIN accounts) = 2
    /\ Len(SnapshotRows) = 2
    /\ \E c \in DOMAIN accounts : accounts[c].held # 0 /\ accounts[c].available # 0
    /\ \E i \in DOMAIN SnapshotRows : SnapshotRows[i].total.negative

\* The payload a printed amount stands for
WideRendered(r) == Wide(r.high, Rendered(r))

\* C16 (as stated), for one balance of any size: the amount that the row
\* of an account shows for a balance is that balance.
C16_RowReportsBalance ==
    render.shown.some => WideRendered(render.shown.value) = render.balance

\* C17: DisputedTransactionClientMissing cannot happen. Whatever calls were
\* made, those that returned an error included, the client of every history
\* record has an account, and no call has returned that error.
C17_RecordClientHasAccount ==
    /\ \A id \in DOMAIN transactions :
          transactions[id].client_id \in DOMAIN accounts
    /\ result.tag # "DisputedTransactionClientMissing"
    /\ Effective => result = Ok

\* C17's case: after a call that returned an error, a Dispute carrying the
\* id of a client without an account has found the account of the record's
\* client and acted.
C17_Witness ==
    /\ Effective
    /\ IsKind("Dispute")
    /\ txn.client_id \notin DOMAIN accounts
    /\ calls > Cardinality(DOMAIN transactions) + 1
    /\ accounts[OldRecord.client_id].held # 0

\* C18: every history record is a Deposit or a Withdrawal (no Dispute,
\* Resolve or Chargeback is ever stored), and no call returns
\* DisputeTargetInvalid.
C18_OnlyMoneyRecords ==
    /\ \A id \in DOMAIN transactions :
          transactions[id].inner.kind \in {"Deposit", "Withdrawal"}
    /\ result.tag # "DisputeTargetInvalid"

\* C18's case: history holds a Deposit and a Withdrawal, and a Dispute and
\* then a Chargeback of one of them have been processed.
C18_Witness ==
    /\ \E i, j \in DOMAIN transactions :
          /\ transactions[i].inner.kind = "Deposit"
          /\ transactions[j].inner.kind = "Withdrawal"
    /\ Effective
    /\ IsKind("Chargeback")

\* C19: accounts and records are never deleted, an existing record keeps its
\* transaction_id, client_id, kind and amount (only lifecycle_state may
\* differ after a call), and history grows only by the transaction of a
\* successful Deposit or unlocked Withdrawal.
C19_NothingDeletedOrRewritten ==
    /\ DOMAIN pre.accounts \subseteq DOMAIN accounts
    /\ DOMAIN pre.transactions \subseteq DOMAIN transactions
    /\ \A id \in DOMAIN pre.transactions :
          /\ transactions[id].transaction_id = pre.transactions[id].transaction_id
          /\ transactions[id].client_id = pre.transactions[id].client_id
          /\ transactions[id].inner = pre.transactions[id].inner
    /\ \A id \in DOMAIN transactions : transactions[id].transaction_id = id
    /\ \A id \in DOMAIN transactions \ DOMAIN pre.transactions :
          /\ id = txn.transaction_id
          /\ txn.inner.kind \in {"Deposit", "Withdrawal"}
          /\ result = Ok
          /\ txn.inner.kind = "Withdrawal" =>
                ~AccountOf(pre.accounts, txn.client_id).locked
          /\ transactions[id] = txn

\* C19's case: a Deposit reusing the id of a stored Withdrawal of another
\* client has been refused, with two records and two accounts in place.
C19_Witness ==
    /\ IsKind("Deposit")
    /\ NamedRecord
    /\ OldRecord.inner.kind = "Withdrawal"
    /\ OldRecord.client_id # txn.client_id
    /\ Cardinality(DOMAIN transactions) = 2
    /\ Cardinality(DOMAIN pre.accounts) = 2

\* C20, the part that holds in every state: the calls made so far are the
\* first lines of the input, once each and in file order; while reading no
\* line has failed; a run that returned Ok has applied every line; a run
\* that returned an error stopped at the first line that failed and
\* applied none after it, or had applied every line when its write to
\* stdout failed; a run without a reader has applied nothing. Nothing of
\* this changes between the return of run() and the exit.
C20_InOrder ==
    /\ ~input.some =>
          /\ pc \in {"opening", "aborted", "exit1", "exit101"}
          /\ pos = 0
          /\ applied = <<>>
          /\ transactions = EmptyMap
          /\ accounts = EmptyMap
    /\ input.some =>
          LET whole == Replay(Len(input.value))
              sofar == Replay(pos)
          IN  /\ pos \in 0..Len(input.value)
              /\ applied = sofar.applied
              /\ transactions = sofar.transactions
              /\ accounts = sofar.accounts
              /\ pc # "opening"
              /\ pc = "reading" => (sofar.stopped = 0 /\ Len(applied) = pos)
              /\ ReturnedOk => /\ pos = Len(input.value)
                               /\ whole.stopped = 0
                               /\ Len(applied) = Len(input.value)
              /\ Failed =>
                    \/ /\ whole.stopped # 0
                       /\ pos = whole.stopped
                       /\ applied = whole.applied
                       /\ Len(applied) \in {pos - 1, pos}
                       /\ out = <<>>
                    \/ /\ whole.stopped = 0
                       /\ pos = Len(input.value)
                       /\ Len(applied) = Len(input.value)
                       /\ SnapshotPart(out)

\* C20: for every input file the process ends, with status 0 after run()
\* returned Ok, with status 1 or 101 after it returned an error, or with
\* 101 before a reader was made, and takes no step after that; at every moment it has applied the lines once each, in
\* file order, up to the first one that failed to decode or to apply and
\* none after it.
C20_RunTerminatesInOrder ==
    /\ []C20_InOrder
    /\ <>Exited
    /\ [][pc # "exit0" /\ pc # "exit1" /\ pc # "exit101"]_vars

\* C20's case: process refused the third or a later line, run() returned
\* the error with lines left that were never read, and the process has
\* exited with status 1.
C20_Witness ==
    /\ pc = "exit1"
    /\ input.some
    /\ result # Ok
    /\ pos >= 3
    /\ pos < Len(input.value)
    /\ Len(applied) = pos

\* A stored Withdrawal whose amount was not subtracted: available was below
\* the amount when it was processed against the unlocked account
Unpaid(id, history) ==
    /\ id \in DOMAIN history
    /\ history[id].inner.kind = "Withdrawal"
    /\ id \notin debited

\* C21: a Withdrawal of amount X that changed no balance because available
\* was below X is stored all the same and can be disputed. A Dispute naming
\* it while Alive sets it to Disputed, adds X to available and takes X from
\* held; a Chargeback naming it while Disputed adds X to held, locks the
\* account and sets it to ChargedBack.
C21_UnpaidWithdrawalDisputable ==
    LET id == txn.transaction_id
    IN  /\ (IsKind("Withdrawal") /\ ~NamedRecord /\ result = Ok
            /\ ~AccountOf(pre.accounts, txn.client_id).locked
            /\ AccountOf(pre.accounts, txn.client_id).available < txn.inner.amount) =>
               /\ Unpaid(id, transactions)
               /\ transactions[id].state = Alive
               /\ accounts[txn.client_id] = AccountOf(pre.accounts, txn.client_id)
        /\ \A w \in DOMAIN transactions, c \in ClientIds :
              (Unpaid(w, transactions) /\ transactions[w].state = Alive) =>
                  LET d == process(transactions, accounts,
                                   Transaction_new(w, c, Dispute))
                  IN  d.result = Ok /\ d.transactions[w].state = Disputed
        /\ (IsKind("Dispute") /\ Unpaid(id, pre.transactions)
            /\ OldRecord.state = Alive) =>
               LET c == OldRecord.client_id
                   X == OldRecord.inner.amount
               IN  /\ result = Ok
                   /\ transactions[id].state = Disputed
                   /\ accounts[c].available = pre.accounts[c].available + X
                   /\ accounts[c].held = pre.accounts[c].held - X
                   /\ accounts[c].locked = pre.accounts[c].locked
        /\ (IsKind("Chargeback") /\ Unpaid(id, pre.transactions)
            /\ OldRecord.state = Disputed) =>
               LET c == OldRecord.client_id
                   X == OldRecord.inner.amount
               IN  /\ result = Ok
                   /\ transactions[id].state = ChargedBack
                   /\ accounts[c].held = pre.accounts[c].held + X
                   /\ accounts[c].available = pre.accounts[c].available
                   /\ accounts[c].locked

\* C21's case: a Withdrawal of a positive amount from an empty account was
\* stored unpaid, disputed and charged back; the locked account is left
\* with the amount as available and nothing held.
C21_Witness ==
    /\ IsKind("Chargeback")
    /\ Unpaid(txn.transaction_id, pre.transactions)
    /\ OldRecord.state = Disputed
    /\ OldRecord.inner.amount > 0
    /\ accounts[OldRecord.client_id].locked
    /\ accounts[OldRecord.client_id].available = OldRecord.inner.amount
    /\ accounts[OldRecord.client_id].held = 0
    /\ Cardinality(DOMAIN transactions) = 1

\* The ids of the records of client c that are in lifecycle state s
RecordsOf(c, s) ==
    {id \in DOMAIN transactions :
        transactions[id].client_id = c /\ transactions[id].state = s}

\* The sum of the disputed amounts of the records S: +amount for a Deposit,
\* -amount for a Withdrawal
RECURSIVE SumOfSigned(_)
SumOfSigned(S) ==
    IF S = {} THEN 0
    ELSE LET id == CHOOSE x \in S : TRUE
         IN  SignedAmount(transactions[id]) + SumOfSigned(S \ {id})

\* C22: for every client, held is the sum of the disputed amounts (+amount
\* for a Deposit, -amount for a Withdrawal) of the client's records that are
\* Disputed now; held is 0 when none of them is.
C22_HeldIsSumOfDisputed ==
    \A c \in ClientIds :
        /\ AccountOf(accounts, c).held = SumOfSigned(RecordsOf(c, Disputed))
        /\ RecordsOf(c, Disputed) = {} => AccountOf(accounts, c).held = 0

\* C22's case: a client has a Deposit and a Withdrawal of positive amounts
\* in dispute at once, the second Dispute just processed, and held is their
\* signed sum, zero.
C22_Witness ==
    /\ \E c \in ClientIds :
          /\ Cardinality(RecordsOf(c, Disputed)) = 2
          /\ \E i, j \in RecordsOf(c, Disputed) :
                /\ transactions[i].inner.kind = "Deposit"
                /\ transactions[j].inner.kind = "Withdrawal"
                /\ transactions[i].inner.amount > 0
                /\ transactions[j].inner.amount > 0
          /\ accounts[c].held = 0
    /\ IsKind("Dispute")
    /\ Effective

\* C23: an account is locked exactly when a record of its client is
\* ChargedBack, and an account that was locked before a call is locked
\* after it, whatever the transaction and whatever the call returned.
C23_LockedIffChargedBack ==
    /\ \A c \in ClientIds :
          AccountOf(accounts, c).locked <=> RecordsOf(c, ChargedBack) # {}
    /\ \A c \in DOMAIN pre.accounts :
          pre.accounts[c].locked => (c \in DOMAIN accounts /\ accounts[c].locked)
    /\ \A c \in DOMAIN accounts :
          accounts[c].locked =>
              \A id \in TransactionIds, c2 \in ClientIds, a \in Amounts :
                  \A inner \in {Deposit(a), Withdrawal(a), Dispute, Resolve,
                                Chargeback} :
                      process(transactions, accounts,
                              Transaction_new(id, c2, inner)).accounts[c].locked

\* C23's case: a Deposit with a fresh id has been credited to an account
\* that a Chargeback had locked, and the account is still locked.
C23_Witness ==
    /\ IsKind("Deposit")
    /\ result = Ok
    /\ txn.client_id \in DOMAIN pre.accounts
    /\ pre.accounts[txn.client_id].locked
    /\ accounts[txn.client_id].locked
    /\ RecordsOf(txn.client_id, ChargedBack) # {}

\* The total State::write reports for an account: available + held
TotalOf(account) == FixedFloat_add(account.available, account.held)

\* C24 (as stated): a Dispute or a Resolve leaves available + held of every
\* account as it was, when it has just been processed and when it would be
\* processed next; a call after which some account's total differs was a
\* Deposit to that client, a Withdrawal by that client that succeeded (it
\* returned Ok, and the unlocked account covered its amount), or a
\* Chargeback of a Disputed record of that client.
C24_DisputeResolveKeepTotal ==
    /\ (IsKind("Dispute") \/ IsKind("Resolve")) =>
          /\ DOMAIN accounts = DOMAIN pre.accounts
          /\ \A c \in DOMAIN accounts :
                TotalOf(accounts[c]) = TotalOf(pre.accounts[c])
    /\ \A id \in TransactionIds, c2 \in ClientIds, inner \in {Dispute, Resolve} :
          LET r == process(transactions, accounts, Transaction_new(id, c2, inner))
          IN  /\ DOMAIN r.accounts = DOMAIN accounts
              /\ \A c \in DOMAIN accounts :
                    TotalOf(r.accounts[c]) = TotalOf(accounts[c])
    /\ Called =>
          \A c \in DOMAIN accounts :
              TotalOf(accounts[c]) # TotalOf(AccountOf(pre.accounts, c)) =>
                  \/ IsKind("Deposit") /\ c = txn.client_id
                  \/ /\ IsKind("Withdrawal")
                     /\ result = Ok
                     /\ c = txn.client_id
                     /\ ~AccountOf(pre.accounts, c).locked
                     /\ AccountOf(pre.accounts, c).available >= txn.inner.amount
                  \/ /\ IsKind("Chargeback")
                     /\ Effective
                     /\ c = OldRecord.client_id

\* C24's case: a Resolve has moved a positive amount from held back to
\* available, and the account's total, not zero, is what it was.
C24_Witness ==
    /\ IsKind("Resolve")
    /\ Effective
    /\ OldRecord.inner.amount > 0
    /\ accounts[OldRecord.client_id].held # pre.accounts[OldRecord.client_id].held
    /\ TotalOf(accounts[OldRecord.client_id]) # 0
    /\ TotalOf(accounts[OldRecord.client_id]) =
          TotalOf(pre.accounts[OldRecord.client_id])
====
